---- MODULE Spec2Model ----
(***************************************************************************)
(* A model of lutron.py: the Pico button wrapper with its double-click and *)
(* long-press timing (PicoButton), and the Caseta facade (credential       *)
(* check, pairing, connect, subscription wiring, command resolution).      *)
(*                                                                         *)
(* Python strings are sequences of one-character strings, so that          *)
(* str.format, str.lower, str.upper, str.replace, str.isdigit, int() and   *)
(* str() are computed and not assumed.  Python values that reach a         *)
(* comparison between different types are tagged records: [int |-> 2],     *)
(* [str |-> <<"2">>], NoneV.                                               *)
(*                                                                         *)
(* Time is loop.time() counted in quarter seconds.                         *)
(***************************************************************************)
EXTENDS Integers, Sequences, FiniteSets, TLC

\* ------------------------------------------------------------------ bounds
\* The loop clock runs from 0 to MaxTime quarter seconds.
MaxTime == 8
\* Timer handles that can be alive at once (ids 1..MaxHandles).
MaxHandles == 2
\* The long-press publishes of one hold are counted up to MaxCount.
MaxCount == 3

\* ------------------------------------------------------- program constants
\* PicoButton.double_click_time, 0.5 s, in quarter seconds.
double_click_time == 2
\* PicoButton.long_press_time, 1 s, in quarter seconds.
long_press_time == 4

\* ---------------------------------------------------------- Python strings
s_ON == <<"O", "N">>
s_OFF == <<"O", "F", "F">>
s_Press == <<"P", "r", "e", "s", "s">>
s_Release == <<"R", "e", "l", "e", "a", "s", "e">>
s_double == <<"d", "o", "u", "b", "l", "e">>
s_long == <<"l", "o", "n", "g">>
s_slash == <<"/">>

Digits == <<"0", "1", "2", "3", "4", "5", "6", "7", "8", "9">>

\* str(n) of a non-negative int.
RECURSIVE IntToStr(_)
IntToStr(n) ==
    IF n < 10 THEN <<Digits[n + 1]>>
    ELSE IntToStr(n \div 10) \o <<Digits[(n % 10) + 1]>>

\* c.lower() and c.upper() of the characters the model's names use.
LowerChar(c) ==
    CASE c = "A" -> "a" [] c = "B" -> "b" [] c = "F" -> "f" [] c = "N" -> "n"
      [] c = "O" -> "o" [] c = "K" -> "k" [] c = "R" -> "r" [] OTHER -> c

UpperChar(c) ==
    CASE c = "a" -> "A" [] c = "b" -> "B" [] c = "f" -> "F" [] c = "n" -> "N"
      [] c = "o" -> "O" [] c = "k" -> "K" [] c = "r" -> "R" [] OTHER -> c

\* s.replace(" ", "_").lower()
NormalizeName(s) ==
    [i \in 1..Len(s) |-> LowerChar(IF s[i] = " " THEN "_" ELSE s[i])]

\* s.upper()
Upper(s) == [i \in 1..Len(s) |-> UpperChar(s[i])]

\* ----------------------------------------------------------- Python values
IntV(n) == [int |-> n]
StrV(s) == [str |-> s]
BoolV(b) == [bool |-> b]
ListV(l) == [list |-> l]
NoneV == [none |-> TRUE]

IsInt(v) == DOMAIN v = {"int"}
IsStr(v) == DOMAIN v = {"str"}
IsList(v) == DOMAIN v = {"list"}

\* ------------------------------------------------------------------- state
VARIABLES
    now,              \* loop.time()
    device,           \* PicoButton.device, the bridge's dict of the button
    start,            \* PicoButton.start
    long_press_task,  \* PicoButton._long_press_task: NoTask or a handle id
    scheduled,        \* the loop's pending timers: [id, when]
    cancelled,        \* the handles whose cancelled() is true
    bpc,              \* "created" until _subscribe has called the wrapper
    out,              \* what the last step published: <<[topic, payload]>>
    last,             \* the last step, and what it found
    holdSince,        \* when the current (or last) hold began
    longOn,           \* long-press 'ON' publishes of that hold, up to MaxCount
    files,            \* the credential files of Caseta.certs that exist
    pc,               \* where _connect stands
    bridge,           \* Caseta.bridge: "None", "created", "connected"
    inventory,        \* what the bridge reports: [devices, buttons]
    button_subscribers, \* bridge._button_subscribers, in insertion order
    subscribers,      \* bridge._subscribers, in insertion order
    wired,            \* how many entries of the wiring order are done
    feed,             \* everything Caseta._publish has sent, in order
    retry,            \* the _pair call under way follows a failed one
    pairs,            \* _pair calls so far, up to MaxCount
    result,           \* the last message and what _get_command made of it
    teardown          \* the releases _stop has attempted, in order

bvars == <<now, device, start, long_press_task, scheduled, cancelled, bpc,
           out, last, holdSince, longOn>>

fvars == <<files, pc, bridge, inventory, button_subscribers, subscribers,
           wired, feed, retry, pairs, result, teardown>>

vars == <<bvars, fvars>>

\* self._long_press_task = None: no handle (handle ids start at 1).
NoTask == 0

HandleIds == 1..MaxHandles

\* ----------------------------------------------------------------- Device
\* Device.name
Device_name(d) == NormalizeName(d.name)

\* PicoButton.__bool__
PicoButton_bool(d) == d.current_state = StrV(s_Press)

\* Device.__str__
Device_str(d) == IF PicoButton_bool(d) THEN s_ON ELSE s_OFF

\* '{}/{}'.format(self.name, self.button_number)
StateTopic(d) == Device_name(d) \o s_slash \o IntToStr(d.button_number)

\* '{}/{}/double'.format(self.name, self.button_number)
DoubleTopic(d) == StateTopic(d) \o s_slash \o s_double

\* '{}/{}/long'.format(self.name, self.button_number)
LongTopic(d) == StateTopic(d) \o s_slash \o s_long

Msg(t, p) == [topic |-> t, payload |-> p]

\* Caseta._publish through Device.publish: a message is sent unless it is None.
Publish(t, p) == <<Msg(t, p)>>

\* ------------------------------------------------------------ timer handles
\* loop.call_later(delay, self.long_press): a new pending handle.
FreshHandle(task, sch) ==
    CHOOSE h \in HandleIds :
        /\ h # task
        /\ \A t \in sch : t.id # h
        /\ \A g \in HandleIds :
              (g # task /\ \A t \in sch : t.id # g) => h <= g

call_later(h, delay, T, t) ==
    [scheduled |-> T.scheduled \cup {[id |-> h, when |-> t + delay]},
     cancelled |-> T.cancelled]

\* Mutant: cancel() marks the handle and leaves it among the loop's timers.
TimerHandle_cancel_keeps(h, T) ==
    [scheduled |-> T.scheduled, cancelled |-> T.cancelled \cup {h}]

\* TimerHandle.cancel(): the handle leaves the loop's timers and is cancelled.
TimerHandle_cancel(h, T) ==
    [scheduled |-> {t \in T.scheduled : t.id # h},
     cancelled |-> T.cancelled \cup {h}]

\* TimerHandle.cancelled()
TimerHandle_cancelled(h, T) == h \in T.cancelled

\* PicoButton.long_press: the value returned, what is published, the timers.
long_press(d, task, T, t) ==
    IF PicoButton_bool(d) /\ task = NoTask
    THEN LET h == FreshHandle(task, T.scheduled)
         IN  [ret |-> h, pub |-> <<>>,
              timers |-> call_later(h, long_press_time, T, t)]
    ELSE IF ~PicoButton_bool(d) /\ task = NoTask
    THEN [ret |-> NoTask, pub |-> <<>>, timers |-> T]
    ELSE IF ~PicoButton_bool(d) /\ ~TimerHandle_cancelled(task, T)
    THEN [ret |-> NoTask, pub |-> <<>>, timers |-> TimerHandle_cancel(task, T)]
    ELSE [ret |-> NoTask,
          pub |-> Publish(LongTopic(d), StrV(Device_str(d))),
          timers |-> TimerHandle_cancel(task, T)]

\* Mutant: the double-click window without its boundary.
IsDoubleClick_strict(t, s) == t - s < double_click_time

\* The double-click test of PicoButton.timing.
IsDoubleClick(t, s) == t - s <= double_click_time

\* Mutant: timing does not keep the handle long_press returns.
timing_drops_handle(d, s, task, T, t) ==
    LET lp == long_press(d, task, T, t)
    IN  [start |-> IF PicoButton_bool(d) THEN t ELSE s,
         task |-> NoTask,
         pub |-> (IF PicoButton_bool(d) /\ IsDoubleClick(t, s)
                  THEN Publish(DoubleTopic(d), StrV(Device_str(d))) ELSE <<>>)
                 \o lp.pub,
         timers |-> lp.timers]

\* PicoButton.timing: start, _long_press_task, what is published, the timers.
timing(d, s, task, T, t) ==
    LET lp == long_press(d, task, T, t)
    IN  [start |-> IF PicoButton_bool(d) THEN t ELSE s,
         task |-> lp.ret,
         pub |-> (IF PicoButton_bool(d) /\ IsDoubleClick(t, s)
                  THEN Publish(DoubleTopic(d), StrV(Device_str(d))) ELSE <<>>)
                 \o lp.pub,
         timers |-> lp.timers]

\* PicoButton.__call__(msg): msg = NoneV is the call without a message.
\* Mutant: __call__ without its publish of the state.
PicoButton_call_silent(d, msg, s, task, T, t) ==
    LET d1 == IF msg = NoneV THEN d ELSE [d EXCEPT !.current_state = msg]
        tm == timing(d1, s, task, T, t)
    IN  [device |-> d1, start |-> tm.start, task |-> tm.task,
         pub |-> tm.pub, timers |-> tm.timers]

PicoButton_call(d, msg, s, task, T, t) ==
    LET d1 == IF msg = NoneV THEN d ELSE [d EXCEPT !.current_state = msg]
        tm == timing(d1, s, task, T, t)
    IN  [device |-> d1, start |-> tm.start, task |-> tm.task,
         pub |-> Publish(StateTopic(d1), StrV(Device_str(d1))) \o tm.pub,
         timers |-> tm.timers]

\* ------------------------------------------------------------- inventory
\* PicoButton.picobuttons, the layouts the model's remotes have.
picobuttons(type) ==
    CASE type = "Pico2Button" -> [n \in 0..1 |-> <<<<"O", "n">>, <<"O", "f", "f">>>>[n + 1]]
      [] type = "Pico4Button" -> [n \in 0..3 |-> <<<<"1">>, <<"2">>, <<"3">>, <<"4">>>>[n + 1]]
      [] OTHER -> <<>>

\* A button as bridge.get_buttons() reports it.
Button(id, name, type, number, state) ==
    [device_id |-> id, name |-> name, type |-> type, button_number |-> number,
     current_state |-> state]

n_Rem_A == <<"R", " ", "A">>
n_r_a == <<"r", "_", "a">>
n_K == <<"K">>
n_k == <<"k">>
n_B == <<"B">>
n_zz == <<"z", "z">>
n_SB == <<"S", "B">>

\* A device as bridge.get_devices_by_domain() reports it.
Device(id, name, type, state) ==
    [device_id |-> id, name |-> name, type |-> type, current_state |-> state]

ButtonStates == {StrV(s_Press), StrV(s_Release)}

\* ------------------------------------------------------ command strings
c_set_value == <<"s", "e", "t", "_", "v", "a", "l", "u", "e">>
c_click == <<"c", "l", "i", "c", "k">>
c_press == <<"p", "r", "e", "s", "s">>
c_release == <<"r", "e", "l", "e", "a", "s", "e">>
c_refresh == <<"r", "e", "f", "r", "e", "s", "h">>
c_status == <<"s", "t", "a", "t", "u", "s">>
c_activate_scene == <<"a", "c", "t", "i", "v", "a", "t", "e", "_", "s", "c", "e", "n", "e">>
c_is_on == <<"i", "s", "_", "o", "n">>
c_frobnicate == <<"f", "r", "o", "b", "n", "i", "c", "a", "t", "e">>
s_caseta == <<"c", "a", "s", "e", "t", "a">>
s_Connected == <<"C", "o", "n", "n", "e", "c", "t", "e", "d">>

\* The name the service is created with: Caseta(..., name="caseta").
own_name == s_caseta

\* The bridge handle as an argument.
BridgeV == [bridge |-> TRUE]

\* ----------------------------------------------------------- string helpers
\* s.split('/')
RECURSIVE SplitFrom(_, _, _)
SplitFrom(s, i, cur) ==
    IF i > Len(s) THEN <<cur>>
    ELSE IF s[i] = "/" THEN <<cur>> \o SplitFrom(s, i + 1, <<>>)
    ELSE SplitFrom(s, i + 1, Append(cur, s[i]))

Split(s) == SplitFrom(s, 1, <<>>)

\* '/'.join(segs)
RECURSIVE Join(_)
Join(segs) ==
    IF Len(segs) = 0 THEN <<>>
    ELSE IF Len(segs) = 1 THEN segs[1]
    ELSE segs[1] \o s_slash \o Join(Tail(segs))

\* s.isdigit()
IsDigit(s) ==
    /\ Len(s) > 0
    /\ \A i \in 1..Len(s) : \E k \in 1..10 : Digits[k] = s[i]

DigitVal(c) == (CHOOSE k \in 1..10 : Digits[k] = c) - 1

\* int(s) of a digit string
RECURSIVE StrToInt(_)
StrToInt(s) ==
    IF Len(s) = 0 THEN 0
    ELSE 10 * StrToInt(SubSeq(s, 1, Len(s) - 1)) + DigitVal(s[Len(s)])

\* str(a)
PyStr(v) == IF IsInt(v) THEN StrV(IntToStr(v.int)) ELSE v

\* bool(v) of None, a string, an int or an object
Truthy(v) ==
    /\ v # NoneV
    /\ IsStr(v) => Len(v.str) > 0
    /\ IsInt(v) => v.int # 0

\* ------------------------------------------------------- the dispatch table
\* The public operations of the service layer, in _method_dict.
ServiceMethods == {c_set_value, c_click, c_press, c_release, c_refresh, c_status}

\* Caseta.bridge_methods: the public callables of Smartbridge that the
\* service layer does not define itself (two of them).
bridge_methods == {c_activate_scene, c_is_on}

\* self._method_dict after __init__
method_dict == ServiceMethods \cup bridge_methods

\* len(signature(self._method_dict[command]).parameters): a bound method of
\* the service counts its parameters without self, a function of Smartbridge
\* counts self.
NParams(command) ==
    CASE command = c_set_value -> 3
      [] command \in {c_click, c_press, c_release, c_refresh} -> 1
      [] command = c_status -> 0
      [] command = c_activate_scene -> 2
      [] command = c_is_on -> 2

\* ------------------------------------------------------------- the registry
\* dict[key] = value on an insertion-ordered dict.
DictSet(dict, k, v) ==
    IF \E i \in DOMAIN dict : dict[i].key = k
    THEN [i \in DOMAIN dict |->
             IF dict[i].key = k THEN [key |-> k, dev |-> v] ELSE dict[i]]
    ELSE Append(dict, [key |-> k, dev |-> v])

\* PicoButton.button_name
button_name(d) ==
    LET layout == picobuttons(d.type)
    IN  IF d.button_number \in DOMAIN layout THEN layout[d.button_number]
        ELSE IntToStr(d.button_number)

\* PicoButton.button_number_from_name
button_number_from_name(d, bn) ==
    IF bn = NoneV THEN BoolV(FALSE)
    ELSE IF IsInt(bn) THEN bn
    ELSE IF IsDigit(bn.str) THEN IntV(StrToInt(bn.str))
    ELSE IF Upper(button_name(d)) = Upper(bn.str) THEN IntV(d.button_number)
    ELSE NoneV

\* n == v for an int n: Python's False equals 0 and True equals 1.
IntEquals(n, v) ==
    IF IsInt(v) THEN n = v.int
    ELSE IF DOMAIN v = {"bool"} THEN n = (IF v.bool THEN 1 ELSE 0)
    ELSE FALSE

\* PicoButton.match
match(d, bn) == IntEquals(d.button_number, button_number_from_name(d, bn))

\* Mutant: the scan keeps going and the last match is returned.
LastMatch(S) == CHOOSE i \in S : \A j \in S : j <= i

\* A for loop over dict.items() that returns at its first match.
FirstMatch(S) == CHOOSE i \in S : \A j \in S : i <= j

\* Caseta._device_id_from_name
device_id_from_name(device_name, bn) ==
    LET B == {i \in DOMAIN button_subscribers :
                 /\ device_name = StrV(Device_name(button_subscribers[i].dev))
                 /\ match(button_subscribers[i].dev, bn)}
        D == {i \in DOMAIN subscribers :
                 device_name = StrV(Device_name(subscribers[i].dev))}
    IN  IF ~Truthy(device_name)
        THEN [device_id |-> NoneV, is_button |-> FALSE, warned |-> FALSE]
        ELSE IF B # {}
        THEN [device_id |-> StrV(button_subscribers[FirstMatch(B)].key),
              is_button |-> TRUE, warned |-> FALSE]
        ELSE IF D # {}
        THEN [device_id |-> StrV(subscribers[FirstMatch(D)].key),
              is_button |-> FALSE, warned |-> FALSE]
        ELSE [device_id |-> NoneV, is_button |-> FALSE, warned |-> TRUE]

\* --------------------------------------------------------- _get_command
\* MQTT._get_command, the base class's: the command is the topic's first
\* segment when the dispatch table has it and None otherwise; the arguments
\* are the decoded payload.
MQTT_get_command(msg) ==
    LET first == Split(msg.topic)[1]
    IN  [command |-> IF first \in method_dict THEN StrV(first) ELSE NoneV,
         args |-> msg.payload]

\* args[:nparams]
Truncate(args, n) == SubSeq(args, 1, IF n < Len(args) THEN n ELSE Len(args))

\* [str(a) if command == 'activate_scene' else a for a in args if a is not None]
RECURSIVE FilterArgs(_, _)
FilterArgs(command, args) ==
    IF Len(args) = 0 THEN <<>>
    ELSE (IF Head(args) = NoneV THEN <<>>
          ELSE IF command = StrV(c_activate_scene) THEN <<PyStr(Head(args))>>
          ELSE <<Head(args)>>)
         \o FilterArgs(command, Tail(args))

\* Mutant: the id of a button is put before the arguments, as a device's is.
InsertDeviceId_prepends(found, args) ==
    IF Truthy(found.device_id) THEN <<found.device_id>> \o args ELSE args

\* if device_id: args = [device_id] for a button, args.insert(0, device_id)
\* for a device
InsertDeviceId(found, args) ==
    IF Truthy(found.device_id)
    THEN (IF found.is_button THEN <<found.device_id>>
          ELSE <<found.device_id>> \o args)
    ELSE args

\* Mutant: the bridge handle is put after the arguments.
InsertBridge_appends(br, args) ==
    IF Truthy(br) THEN args \o <<br>> ELSE args

\* if br: args.insert(0, br)
InsertBridge(br, args) ==
    IF Truthy(br) THEN <<br>> \o args ELSE args

Outcome(raised, command, device_name, found, full, nparams) ==
    [raised |-> raised, command |-> command, device_name |-> device_name,
     device_id |-> found.device_id, is_button |-> found.is_button,
     warned |-> found.warned, full |-> full, nparams |-> nparams,
     args |-> Truncate(full, nparams)]

NotLookedUp == [device_id |-> NoneV, is_button |-> FALSE, warned |-> FALSE]

\* Mutant: the target is the topic's last segment, whatever precedes it.
TargetName_last(segs, command) ==
    LET dn1 == StrV(segs[Len(segs)])
    IN  IF dn1 = command THEN NoneV ELSE dn1

\* device_name of _get_command: msg.topic.split('/')[-2], or [-1] when that
\* is the service's own name; None when it is the command.
TargetName(segs, command) ==
    LET n == Len(segs)
        dn0 == StrV(segs[n - 1])
        dn1 == IF dn0 = StrV(own_name) THEN StrV(segs[n]) ELSE dn0
    IN  IF dn1 = command THEN NoneV ELSE dn1

\* Caseta._get_command: what it returns, or the exception it raises.
Caseta_get_command(msg) ==
    LET base == MQTT_get_command(msg)
        command == base.command
        segs == Split(msg.topic)
        n == Len(segs)
    IN  IF n < 2
        THEN Outcome("IndexError", command, NoneV, NotLookedUp, <<>>, 0)
        ELSE
        LET device_name == TargetName(segs, command)
            args0 == IF IsList(base.args) THEN base.args.list ELSE <<base.args>>
            nparams == IF Truthy(command) THEN NParams(command.str) ELSE Len(args0)
            br == IF command # NoneV /\ command.str \in bridge_methods
                  THEN BridgeV ELSE NoneV
        IN  IF Len(args0) > 1
            \* _device_id_from_name(device_name, *args) takes one designator
            THEN Outcome("TypeError", command, device_name, NotLookedUp, <<>>, nparams)
            ELSE
            LET found == device_id_from_name(device_name,
                             IF Len(args0) = 1 THEN args0[1] ELSE NoneV)
                args1 == FilterArgs(command, args0)
                args2 == InsertDeviceId(found, args1)
                args3 == InsertBridge(br, args2)
            IN  Outcome("", command, device_name, found, args3, nparams)

\* ----------------------------------------------------------------- _connect
\* The keys of Caseta.certs.
Certs == {"keyfile", "certfile", "ca_certs"}

\* _LEAP_DEVICE_TYPES.keys(), in order.
LeapDomains == <<"light", "switch", "fan", "cover", "sensor">>

\* The domain _LEAP_DEVICE_TYPES lists a device type under.
LeapDomain(type) ==
    CASE type = "WallDimmer" -> "light"
      [] type = "WallSwitch" -> "switch"
      [] type = "CasetaFanSpeedController" -> "fan"
      [] type = "SerenaHoneycombShade" -> "cover"
      [] type \in {"Pico2Button", "Pico4Button"} -> "sensor"
      [] OTHER -> "none"

\* bridge.get_devices_by_domain(type)
RECURSIVE ByDomain(_, _)
ByDomain(devs, dom) ==
    IF Len(devs) = 0 THEN <<>>
    ELSE (IF LeapDomain(Head(devs).type) = dom THEN <<Head(devs)>> ELSE <<>>)
         \o ByDomain(Tail(devs), dom)

\* The wrappers _connect builds, in the order of its loops over the domains.
RECURSIVE WiringFrom(_, _)
WiringFrom(inv, k) ==
    IF k > Len(LeapDomains) THEN <<>>
    ELSE (IF LeapDomains[k] = "sensor" THEN inv.buttons
          ELSE ByDomain(inv.devices, LeapDomains[k]))
         \o WiringFrom(inv, k + 1)

WiringOrder(inv) == WiringFrom(inv, 1)

IsButton(d) == "button_number" \in DOMAIN d

\* Device.__call__: Caseta._publish drops a message that is None.
Device_call(d) ==
    IF d.current_state = NoneV THEN <<>>
    ELSE Publish(Device_name(d), d.current_state)

\* ------------------------------------------------------ the button's steps
Timers == [scheduled |-> scheduled, cancelled |-> cancelled]

\* Handles nothing refers to any more are freed.
Live(c, task) == {h \in c : h = task}

CountLong(pub, payload) ==
    Cardinality({i \in 1..Len(pub) :
        pub[i].topic = LongTopic(device) /\ pub[i].payload = StrV(payload)})

Sat(n) == IF n > MaxCount THEN MaxCount ELSE n

\* What a step found when it began.
Found(op) ==
    [op |-> op,
     d |-> now - start,
     start0 |-> start,
     pressed0 |-> PicoButton_bool(device) /\ bpc = "subscribed",
     task0 |-> long_press_task,
     pending0 |-> \E t \in scheduled : t.id = long_press_task,
     early0 |-> \E t \in scheduled : t.id = long_press_task /\ now < t.when,
     fired0 |-> long_press_task # NoTask /\ long_press_task \in cancelled,
     longOn0 |-> longOn,
     held0 |-> now - holdSince,
     seen0 |-> last.seen0 \/ (last.op \in {"call", "press"}
                                 /\ PicoButton_bool(device))]

\* The wrapper is called: by _subscribe (msg = NoneV) or by the bridge.
Called(op, msg) ==
    LET r == PicoButton_call(device, msg, start, long_press_task, Timers, now)
        began == PicoButton_bool(r.device) /\ ~(PicoButton_bool(device) /\ bpc = "subscribed")
    IN  /\ device' = r.device
        /\ start' = r.start
        /\ long_press_task' = r.task
        /\ scheduled' = r.timers.scheduled
        /\ cancelled' = Live(r.timers.cancelled, r.task)
        /\ out' = r.pub
        /\ last' = Found(op)
        /\ holdSince' = IF began THEN now ELSE holdSince
        /\ longOn' = Sat((IF began THEN 0 ELSE longOn) + CountLong(r.pub, s_ON))
        /\ now' = now
        /\ UNCHANGED fvars

\* callback() in _subscribe, right after the wrapper is built and registered.
InitialPublish ==
    /\ bpc = "created"
    /\ bpc' = "subscribed"
    /\ Called("call", NoneV)

\* The bridge reports a button event to the registered wrapper.
Notify(msg) ==
    /\ bpc = "subscribed"
    /\ bpc' = bpc
    /\ Called(IF msg = StrV(s_Press) THEN "press" ELSE "release", msg)

\* The loop runs a due timer: its callback is self.long_press, whose return
\* value the loop drops.
TimerFire ==
    \E t \in scheduled :
        /\ t.when <= now
        /\ LET T1 == [scheduled |-> scheduled \ {t}, cancelled |-> cancelled]
               lp == long_press(device, long_press_task, T1, now)
           IN  /\ scheduled' = lp.timers.scheduled
               /\ cancelled' = Live(lp.timers.cancelled, long_press_task)
               /\ out' = lp.pub
               /\ longOn' = Sat(longOn + CountLong(lp.pub, s_ON))
        /\ last' = Found("fire")
        /\ UNCHANGED <<now, device, start, long_press_task, bpc, holdSince>>
        /\ UNCHANGED fvars

\* Time passes; a due timer runs before the clock moves on.
Tick ==
    /\ bpc = "subscribed"
    /\ now < MaxTime
    /\ \A t \in scheduled : t.when > now
    /\ now' = now + 1
    /\ out' = <<>>
    /\ last' = Found("tick")
    /\ UNCHANGED <<device, start, long_press_task, scheduled, cancelled, bpc,
                   holdSince, longOn>>
    /\ UNCHANGED fvars

NoResult == [msg |-> NoneV, res |-> NoneV, invoked |-> FALSE]

\* The facade before _connect runs.
IdleFacade ==
    /\ files = {}
    /\ pc = "idle"
    /\ bridge = "None"
    /\ inventory = [devices |-> <<>>, buttons |-> <<>>]
    /\ button_subscribers = <<>>
    /\ subscribers = <<>>
    /\ wired = 0
    /\ feed = <<>>
    /\ retry = FALSE
    /\ pairs = 0
    /\ result = NoResult
    /\ teardown = <<>>

\* No button wrapper exists yet.
IdleButton ==
    /\ now = 0
    /\ device = Button(<<"2">>, n_Rem_A, "Pico2Button", 0, StrV(s_Release))
    /\ start = 0
    /\ long_press_task = NoTask
    /\ scheduled = {}
    /\ cancelled = {}
    /\ bpc = "idle"
    /\ out = <<>>
    /\ last = [op |-> "init", d |-> 0, start0 |-> 0, pressed0 |-> FALSE,
               task0 |-> NoTask, pending0 |-> FALSE, early0 |-> FALSE,
               fired0 |-> FALSE, longOn0 |-> 0, held0 |-> 0,
               seen0 |-> FALSE]
    /\ holdSince = 0
    /\ longOn = 0

\* After PicoButton.__init__, in _subscribe.
InitButton ==
    /\ IdleFacade
    /\ now = 0
    /\ device \in {Button(<<"2">>, n_Rem_A, "Pico2Button", 0, st) : st \in ButtonStates}
    /\ start = now
    /\ long_press_task = NoTask
    /\ scheduled = {}
    /\ cancelled = {}
    /\ bpc = "created"
    /\ out = <<>>
    /\ last = [op |-> "init", d |-> 0, start0 |-> 0, pressed0 |-> FALSE,
               task0 |-> NoTask, pending0 |-> FALSE, early0 |-> FALSE,
               fired0 |-> FALSE, longOn0 |-> 0, held0 |-> 0,
               seen0 |-> FALSE]
    /\ holdSince = 0
    /\ longOn = 0

NextButton ==
    \/ InitialPublish
    \/ \E msg \in ButtonStates : Notify(msg)
    \/ TimerFire
    \/ Tick

SpecButton == InitButton /\ [][NextButton]_vars

\* ------------------------------------------------------ the facade's steps
\* Mutant: _setup is content with any one of the files.
CertsExist_any(fs) == fs # {}

\* all([os.path.exists(f) for f in self.certs.values()])
CertsExist(fs) == fs = Certs

\* Caseta._setup at the head of _connect's outer loop; when it fails, the
\* inner loop calls _pair.
Setup ==
    /\ pc = "setup"
    /\ \/ /\ CertsExist(files)
          /\ bridge' = "created"
          /\ pc' = "connect"
          /\ UNCHANGED <<retry, pairs>>
       \/ /\ ~CertsExist(files)
          /\ pc' = "pair"
          /\ retry' = FALSE
          /\ pairs' = Sat(pairs + 1)
          /\ UNCHANGED bridge
    /\ UNCHANGED <<files, inventory, button_subscribers, subscribers, wired,
                   feed, result>>
    /\ UNCHANGED <<bvars, teardown>>

\* await async_pair(...) in _pair returns the credentials or raises.
PairExchange ==
    /\ pc = "pair"
    /\ \/ pc' = "write_ca"
       \/ pc' = "sleep"
    /\ UNCHANGED <<files, bridge, inventory, button_subscribers, subscribers,
                   wired, feed, retry, pairs, result>>
    /\ UNCHANGED <<bvars, teardown>>

\* with open(path, "w") as f: f.write(...) in _pair.  open creates the file;
\* open or write may raise, and _pair then returns False.
WriteFile(at, f, next) ==
    /\ pc = at
    /\ \/ /\ files' = files \cup {f}
          /\ pc' = next
       \/ /\ files' = files
          /\ pc' = "sleep"
       \/ /\ files' = files \cup {f}
          /\ pc' = "sleep"
    /\ retry' = IF pc' = "setup" THEN FALSE ELSE retry
    /\ UNCHANGED <<bridge, inventory, button_subscribers, subscribers, wired,
                   feed, pairs, result>>
    /\ UNCHANGED <<bvars, teardown>>

\* Mutant: after a failed attempt _connect gives up.
RetryPair_gives_up ==
    /\ pc = "sleep"
    /\ pc' = "done"
    /\ retry' = TRUE
    /\ pairs' = pairs
    /\ UNCHANGED <<files, bridge, inventory, button_subscribers, subscribers,
                   wired, feed, result>>
    /\ UNCHANGED <<bvars, teardown>>

\* 'Retry pairing...', await asyncio.sleep(1), and _pair is called again.
RetryPair ==
    /\ pc = "sleep"
    /\ pc' = "pair"
    /\ retry' = TRUE
    /\ pairs' = Sat(pairs + 1)
    /\ UNCHANGED <<files, bridge, inventory, button_subscribers, subscribers,
                   wired, feed, result>>
    /\ UNCHANGED <<bvars, teardown>>

\* except Exception as e: self.log.exception(e): the exception is logged and
\* _connect returns.  Mutant: the exception leaves _connect.
Caught_reraised == "raised"

Caught == "logged"

\* _connect has returned.
Ended == {"done", "logged"}

\* Mutant: 'Connected' is published before bridge.connect() is awaited.
Connect_announces_first ==
    /\ pc = "connect"
    /\ feed' = feed \o Publish(c_status, StrV(s_Connected))
    /\ \/ /\ bridge' = "connected"
          /\ pc' = "enumerate"
       \/ /\ pc' = Caught
          /\ UNCHANGED bridge
    /\ UNCHANGED <<files, inventory, button_subscribers, subscribers, wired,
                   retry, pairs, result>>
    /\ UNCHANGED <<bvars, teardown>>

\* await self.bridge.connect(): on success 'Connected' is published; an
\* exception is caught (nothing more of the try block runs).
Connect ==
    /\ pc = "connect"
    /\ \/ /\ bridge' = "connected"
          /\ feed' = feed \o Publish(c_status, StrV(s_Connected))
          /\ pc' = "enumerate"
       \/ /\ pc' = Caught
          /\ UNCHANGED <<bridge, feed>>
    /\ UNCHANGED <<files, inventory, button_subscribers, subscribers, wired,
                   retry, pairs, result>>
    /\ UNCHANGED <<bvars, teardown>>

\* The loops over bridge.get_scenes() and bridge.get_devices() that log the
\* inventory; a call that raises is caught.
Enumerate ==
    /\ pc = "enumerate"
    /\ \/ pc' = (IF Len(WiringOrder(inventory)) = 0 THEN "done" ELSE "wire")
       \/ pc' = Caught
    /\ UNCHANGED <<files, bridge, inventory, button_subscribers, subscribers,
                   wired, feed, retry, pairs, result>>
    /\ UNCHANGED <<bvars, teardown>>

\* The turns of _subscribe's loops in which the model lets callback() raise.
FailPoints == {4}

\* Mutant: the wrapper is called before it is registered.
Register_nothing ==
    /\ pc = "wire"
    /\ wired < Len(WiringOrder(inventory))
    /\ pc' = "publish"
    /\ UNCHANGED <<files, bridge, inventory, button_subscribers, subscribers,
                   wired, feed, retry, pairs, result>>
    /\ UNCHANGED <<bvars, teardown>>

\* One turn of a loop of _subscribe, first half: build the wrapper and
\* register it with the bridge under its device id.
Register ==
    /\ pc = "wire"
    /\ wired < Len(WiringOrder(inventory))
    /\ LET d == WiringOrder(inventory)[wired + 1]
       IN  IF IsButton(d)
           THEN /\ button_subscribers' = DictSet(button_subscribers, d.device_id, d)
                /\ UNCHANGED subscribers
           ELSE /\ subscribers' = DictSet(subscribers, d.device_id, d)
                /\ UNCHANGED button_subscribers
    /\ pc' = "publish"
    /\ UNCHANGED <<files, bridge, inventory, wired, feed, retry, pairs, result>>
    /\ UNCHANGED <<bvars, teardown>>

\* Second half: callback() publishes the current value; when it raises, the
\* exception leaves _subscribe and is caught in _connect.
PublishCurrent ==
    /\ pc = "publish"
    /\ LET d == WiringOrder(inventory)[wired + 1]
       IN  \/ /\ feed' = feed \o
                     (IF IsButton(d)
                      THEN PicoButton_call(d, NoneV, now, NoTask,
                               [scheduled |-> {}, cancelled |-> {}], now).pub
                      ELSE Device_call(d))
              /\ wired' = wired + 1
              /\ pc' = IF wired' = Len(WiringOrder(inventory)) THEN "done"
                       ELSE "wire"
           \/ /\ wired + 1 \in FailPoints
              /\ pc' = Caught
              /\ UNCHANGED <<feed, wired>>
    /\ UNCHANGED <<files, bridge, inventory, button_subscribers, subscribers,
                   retry, pairs, result>>
    /\ UNCHANGED <<bvars, teardown>>

\* ------------------------------------------------------------ the messages

Commands == {c_set_value, c_click, c_status, c_activate_scene, c_frobnicate}

Targets == {s_caseta, n_k, n_r_a, n_zz}

Topics ==
    {Join(<<c, a, b>>) : c \in Commands, a \in Targets, b \in Targets}
        \cup {Join(<<c, a>>) : c \in Commands, a \in Targets}

Payloads ==
    {NoneV, IntV(0), IntV(1), StrV(<<"1">>), StrV(<<"o", "n">>),
     StrV(<<"7", "5">>), ListV(<<>>), ListV(<<IntV(1)>>),
     ListV(<<IntV(75), IntV(2)>>),
     ListV(<<IntV(0), IntV(5), IntV(7), IntV(9)>>)}

Messages == [topic : Topics, payload : Payloads]

\* A message arrives once _connect has returned: the base class asks
\* _get_command for the command and its arguments and runs the command, or
\* drops the message when there is none.
OnMessage(msg) ==
    /\ pc \in Ended
    /\ result = NoResult
    /\ LET r == Caseta_get_command(msg)
       IN  result' = [msg |-> msg, res |-> r,
                      invoked |-> r.raised = "" /\ Truthy(r.command)]
    /\ UNCHANGED <<files, pc, bridge, inventory, button_subscribers,
                   subscribers, wired, feed, retry, pairs>>
    /\ UNCHANGED <<bvars, teardown>>

\* The handling of the message ends; the next message can arrive.
Handled ==
    /\ pc \in Ended
    /\ result # NoResult
    /\ result' = NoResult
    /\ UNCHANGED <<files, pc, bridge, inventory, button_subscribers,
                   subscribers, wired, feed, retry, pairs>>
    /\ UNCHANGED <<bvars, teardown>>

\* Caseta._stop, run by stop(): the base class releases the message bus, then
\* the bridge session is closed if there is one.  When the release raises,
\* the exception leaves _stop at once.
Stop ==
    /\ pc \notin {"stopped", "stop_raised", "raised"}
    /\ result = NoResult
    /\ \/ /\ teardown' = teardown \o <<"bus">>
                             \o (IF bridge # "None" THEN <<"bridge">> ELSE <<>>)
          /\ pc' = "stopped"
       \/ /\ teardown' = teardown \o <<"bus">>
          /\ pc' = "stop_raised"
    /\ UNCHANGED <<files, bridge, inventory, button_subscribers, subscribers,
                   wired, feed, retry, pairs, result>>
    /\ UNCHANGED bvars

\* ------------------------------------------------------------ inventories
d1 == Device(<<"1">>, n_SB, "SmartBridge", IntV(-1))
d3 == Device(<<"3">>, n_K, "WallDimmer", IntV(75))
d4 == Device(<<"4">>, n_k, "WallDimmer", IntV(0))
d5 == Device(<<"5">>, n_B, "WallSwitch", IntV(100))
b6 == Button(<<"6">>, n_Rem_A, "Pico2Button", 0, StrV(s_Release))
b7 == Button(<<"7">>, n_r_a, "Pico2Button", 0, StrV(s_Release))
b8 == Button(<<"8">>, n_Rem_A, "Pico2Button", 1, StrV(s_Release))
b9 == Button(<<"9">>, n_k, "Pico4Button", 0, StrV(s_Release))

Inventories ==
    [devices : {<<d1, d3, d4, d5>>, <<d5, d4, d3, d1>>},
     buttons : {<<b6, b7, b8, b9>>, <<b9, b8, b7, b6>>}]

\* Caseta.__init__ has run and _connect starts.
InitFacade ==
    /\ IdleButton
    /\ files \in SUBSET Certs
    /\ pc = "setup"
    /\ bridge = "None"
    /\ inventory \in Inventories
    /\ button_subscribers = <<>>
    /\ subscribers = <<>>
    /\ wired = 0
    /\ feed = <<>>
    /\ retry = FALSE
    /\ pairs = 0
    /\ result = NoResult
    /\ teardown = <<>>

NextFacade ==
    \/ Setup
    \/ PairExchange
    \/ WriteFile("write_ca", "ca_certs", "write_cert")
    \/ WriteFile("write_cert", "certfile", "write_key")
    \/ WriteFile("write_key", "keyfile", "setup")
    \/ RetryPair
    \/ Connect
    \/ Enumerate
    \/ Register
    \/ PublishCurrent
    \/ \E msg \in Messages : OnMessage(msg)
    \/ Handled
    \/ Stop

SpecFacade == InitFacade /\ [][NextFacade]_vars

\* _connect is a coroutine of the event loop: asyncio.sleep(1) ends, and a
\* call that does not await (_setup, open and write) returns.  Nothing
\* makes async_pair or bridge.connect() return.
FairFacade ==
    /\ WF_vars(Setup)
    /\ WF_vars(RetryPair)
    /\ WF_vars(WriteFile("write_ca", "ca_certs", "write_cert"))
    /\ WF_vars(WriteFile("write_cert", "certfile", "write_key"))
    /\ WF_vars(WriteFile("write_key", "keyfile", "setup"))

SpecFacadeLive == SpecFacade /\ FairFacade

\* ------------------------------------------------- claims about the button
HasTopic(pub, topic) == \E i \in 1..Len(pub) : pub[i].topic = topic

\* The last step was the wrapper called while it reports 'Press' / not 'Press'.
PressStep == last.op \in {"call", "press"} /\ PicoButton_bool(device)
ReleaseStep == last.op \in {"call", "release"} /\ ~PicoButton_bool(device)

\* C1: a press notification publishes on <name>/<ordinal>/double exactly when
\* the time since the recorded press start is at most double_click_time (the
\* boundary included), and sets the press start to the current time; a release
\* notification publishes nothing on /double and leaves the press start alone.
C1_DoubleClickWindow ==
    /\ PressStep =>
          /\ HasTopic(out, DoubleTopic(device)) <=> (last.d <= double_click_time)
          /\ start = now
    /\ ReleaseStep =>
          /\ ~HasTopic(out, DoubleTopic(device))
          /\ start = last.start0

\* A second press exactly double_click_time after the first, with its event.
C1_Witness ==
    /\ last.op = "press"
    /\ last.d = double_click_time
    /\ HasTopic(out, DoubleTopic(device))

\* C2: a release that ends a hold of at least long_press_time has seen
\* exactly one long-press event ('ON' on <name>/<ordinal>/long) in that hold.
C2_ExactlyOneLongPress ==
    (last.op = "release" /\ last.pressed0 /\ last.held0 >= long_press_time)
        => last.longOn0 = 1

\* C3: a release that finds the timer armed and not yet due cancels it (no
\* timer is left pending, so none can fire), clears the handle and publishes
\* nothing on /long; a release with no hold before it publishes nothing on
\* /long either.
C3_EarlyReleaseCancels ==
    /\ (last.op = "release" /\ last.early0) =>
           /\ scheduled = {}
           /\ long_press_task = NoTask
           /\ ~HasTopic(out, LongTopic(device))
    /\ (last.op = "release" /\ ~last.pressed0) =>
           /\ scheduled = {}
           /\ long_press_task = NoTask
           /\ ~HasTopic(out, LongTopic(device))

\* A release some time into a hold, before the armed timer is due.
C3_Witness ==
    /\ last.op = "release"
    /\ last.early0
    /\ last.held0 > 0
    /\ scheduled = {}

\* C4: the release that ends a hold in which a long-press event was emitted
\* publishes exactly one 'OFF' on /long and clears the handle; a release after
\* it publishes nothing on /long.
C4_LongPressRelease ==
    /\ (last.op = "release" /\ last.pressed0 /\ last.longOn0 >= 1) =>
           /\ CountLong(out, s_OFF) = 1
           /\ long_press_task = NoTask
    /\ (last.op = "release" /\ ~last.pressed0) =>
           ~HasTopic(out, LongTopic(device))

\* C5 as claimed: whatever a step publishes, the state on <name>/<ordinal> is
\* published with it.
C5_StateWithEveryEvent ==
    out # <<>> => HasTopic(out, StateTopic(device))

\* C5 amended: every call of the wrapper publishes the state first, so the
\* events derived during a call come with it; the long-press event of a
\* firing timer is published alone.
C5_StateWithEveryCall ==
    /\ last.op \in {"call", "press", "release"} =>
           /\ Len(out) >= 1
           /\ out[1] = Msg(StateTopic(device), StrV(Device_str(device)))
    /\ last.op = "fire" =>
           out \in {<<>>, <<Msg(LongTopic(device), StrV(Device_str(device)))>>}

\* The timer fired during a hold and published the long-press event.
C5_Witness ==
    /\ last.op = "fire"
    /\ out = <<Msg(LongTopic(device), StrV(s_ON))>>


\* ------------------------------------------------- claims about resolution
Resolved == result # NoResult

IsPrefix(a, b) == Len(a) <= Len(b) /\ a = SubSeq(b, 1, Len(a))

\* The command of the message is in the dispatch table.
KnownCommand == Split(result.msg.topic)[1] \in method_dict

\* The payload's arguments that are not None, in order.
RawArgs(payload) ==
    LET l == IF IsList(payload) THEN payload.list ELSE <<payload>>
    IN  SelectSeq(l, LAMBDA a : a # NoneV)

\* C6: for every known command and every payload, _get_command returns, with
\* at most as many arguments as the callable has parameters, and these are a
\* prefix of the untruncated list.
C6_TruncationLaw ==
    (Resolved /\ KnownCommand) =>
        /\ result.res.raised = ""
        /\ Len(result.res.args) <= NParams(result.res.command.str)
        /\ IsPrefix(result.res.args, result.res.full)

\* C7: a message whose command is not in the dispatch table is dropped:
\* _get_command does not raise and no operation is invoked.
C7_UnknownCommandDropped ==
    (Resolved /\ ~KnownCommand) =>
        /\ result.res.raised = ""
        /\ ~result.invoked

\* The registered buttons and devices whose name is the target.
ButtonsNamed(name) ==
    {i \in DOMAIN button_subscribers :
        name = StrV(Device_name(button_subscribers[i].dev))}

DevicesNamed(name) ==
    {i \in DOMAIN subscribers : name = StrV(Device_name(subscribers[i].dev))}

\* C8: when the target names no registered button and no registered device,
\* _get_command still returns: no device id was found, and the arguments are
\* the non-null raw arguments in order, after the bridge handle for a command
\* of the bridge client, truncated to the arity.
C8_UnresolvedDeviceProceeds ==
    (/\ Resolved
     /\ KnownCommand
     /\ Truthy(result.res.device_name)
     /\ ButtonsNamed(result.res.device_name) = {}
     /\ DevicesNamed(result.res.device_name) = {}) =>
        /\ result.res.raised = ""
        /\ result.res.device_id = NoneV
        /\ ~result.res.is_button
        /\ result.res.args =
              Truncate((IF result.res.command.str \in bridge_methods
                        THEN <<BridgeV>> ELSE <<>>)
                       \o RawArgs(result.msg.payload),
                       NParams(result.res.command.str))

\* The buttons named by the target that the designator of the message matches.
ButtonsMatched ==
    LET l == IF IsList(result.msg.payload) THEN result.msg.payload.list
             ELSE <<result.msg.payload>>
        bn == IF Len(l) = 0 THEN NoneV ELSE l[1]
    IN  {i \in ButtonsNamed(result.res.device_name) :
            match(button_subscribers[i].dev, bn)}

\* C9 as claimed: of several registered devices (or buttons with the
\* designated ordinal) with the target's name, the one registered last is
\* the one _device_id_from_name returns.
C9_LastRegisteredWins ==
    (Resolved /\ result.res.raised = "" /\ Truthy(result.res.device_id)) =>
        IF result.res.is_button
        THEN \E i \in ButtonsMatched :
                /\ result.res.device_id = StrV(button_subscribers[i].key)
                /\ \A j \in ButtonsMatched : j <= i
        ELSE \E i \in DevicesNamed(result.res.device_name) :
                /\ result.res.device_id = StrV(subscribers[i].key)
                /\ \A j \in DevicesNamed(result.res.device_name) : j <= i

\* C9 amended: the one registered first is returned.
C9_FirstRegisteredWins ==
    (Resolved /\ result.res.raised = "" /\ Truthy(result.res.device_id)) =>
        IF result.res.is_button
        THEN \E i \in ButtonsMatched :
                /\ result.res.device_id = StrV(button_subscribers[i].key)
                /\ \A j \in ButtonsMatched : i <= j
        ELSE \E i \in DevicesNamed(result.res.device_name) :
                /\ result.res.device_id = StrV(subscribers[i].key)
                /\ \A j \in DevicesNamed(result.res.device_name) : i <= j

\* A name that two registered devices share was resolved.
C9_Witness ==
    /\ Resolved
    /\ result.res.raised = ""
    /\ Truthy(result.res.device_id)
    /\ ~result.res.is_button
    /\ Cardinality(DevicesNamed(result.res.device_name)) = 2

\* ---------------------------------------------------- claims about _connect
\* C10 as claimed: _pair is under way only while a credential file is
\* missing, and the bridge session exists only when all three files exist.
C10_PairOnlyWhenMissing ==
    /\ pc = "pair" => files # Certs
    /\ bridge # "None" => files = Certs

\* C10 amended: the first _pair call after a failed _setup finds a file
\* missing (a call that retries a failed one may find all three); the bridge
\* session exists only when all three files exist.
C10_FirstPairWhenMissing ==
    /\ (pc = "pair" /\ ~retry) => files # Certs
    /\ bridge # "None" => files = Certs

\* The session was created after a pairing wrote the files.
C10_Witness ==
    /\ bridge = "created"
    /\ pairs >= 1
    /\ files = Certs

\* _pair is under way or _connect sleeps after a failed _pair.
Pairing == pc \in {"pair", "write_ca", "write_cert", "write_key", "sleep"}

\* stop() has run.
Stopped == {"stopped", "stop_raised"}

\* C11: after every failed _pair the facade sleeps and calls _pair again,
\* however many have failed; while it is pairing no session is opened and
\* _connect does not end; once a _pair has succeeded the facade goes on to
\* open the session.  (All of it unless the service is stopped meanwhile.)
C11_PairingRetriedForever ==
    /\ (pc = "sleep") ~> (pc \in {"pair"} \cup Stopped)
    /\ [][pc = "sleep" => pc' \in {"pair"} \cup Stopped]_pc
    /\ [][Pairing => pc' \notin Ended \cup {"raised"}]_pc
    /\ [](Pairing => bridge = "None")
    /\ (pc = "setup" /\ pairs >= 1) ~>
           ((pc = "connect" /\ bridge = "created") \/ pc \in Stopped)

\* The session is about to be opened after a _pair that failed and one
\* that succeeded.
C11_Witness ==
    /\ pc = "connect"
    /\ bridge = "created"
    /\ pairs >= 2

ConnectedMsg == Msg(c_status, StrV(s_Connected))

\* C12: 'Connected' is published only once bridge.connect() has succeeded,
\* and before every message that wiring publishes; when bridge.connect()
\* fails nothing is published.
C12_ConnectedFirst ==
    /\ feed # <<>> =>
           /\ bridge = "connected"
           /\ feed[1] = ConnectedMsg
           /\ \A i \in 2..Len(feed) : feed[i] # ConnectedMsg
    /\ bridge # "connected" => feed = <<>>

\* Wiring has published device states after 'Connected'.
C12_Witness ==
    /\ pc = "done"
    /\ bridge = "connected"
    /\ Len(feed) > 1
    /\ feed[1] = ConnectedMsg

\* C13 as claimed: an exception raised by connect, the enumeration or the
\* wiring leaves _connect, for its caller to see.
C13_FailurePropagates ==
    pc \in {"logged", "raised"} => pc = "raised"

\* C13 amended: the exception is logged and _connect returns as it does
\* after a complete wiring; no exception ever leaves it.
C13_FailureLoggedOnly ==
    /\ pc # "raised"
    /\ pc = "done" => /\ bridge = "connected"
                      /\ wired = Len(WiringOrder(inventory))
    /\ pc = "logged" => \/ bridge = "created"
                        \/ wired < Len(WiringOrder(inventory))

\* An exception of the wiring was caught when the session was open.
C13_Witness ==
    /\ pc = "logged"
    /\ bridge = "connected"
    /\ wired >= 1

\* The wrapper of d is registered under its device id.
Registered(d) ==
    IF IsButton(d)
    THEN \E i \in DOMAIN button_subscribers :
            button_subscribers[i] = [key |-> d.device_id, dev |-> d]
    ELSE \E i \in DOMAIN subscribers :
            subscribers[i] = [key |-> d.device_id, dev |-> d]

\* The message that publishes the current value of d.
CurrentValue(d) ==
    IF IsButton(d) THEN Msg(StateTopic(d), StrV(Device_str(d)))
    ELSE Msg(Device_name(d), d.current_state)

Count(seq, m) == Cardinality({i \in DOMAIN seq : seq[i] = m})

\* The buttons the bridge reports, and its devices of the categories other
\* than the buttons'.
Discovered ==
    {inventory.buttons[i] : i \in DOMAIN inventory.buttons}
        \cup {inventory.devices[i] : i \in
                 {j \in DOMAIN inventory.devices :
                     LeapDomain(inventory.devices[j].type) \in
                         {"light", "switch", "fan", "cover"}}}

C14_BothReleasesAttempted ==
    /\ IsPrefix(teardown, <<"bus", "bridge">>)
    /\ (pc \in {"stopped", "stop_raised"} /\ bridge # "None") =>
           teardown = <<"bus", "bridge">>

\* The target of the message was resolved to a registered button.
ButtonResolved ==
    /\ Resolved
    /\ result.res.raised = ""
    /\ result.res.is_button
    /\ Truthy(result.res.device_id)

C16_OnePendingTimer ==
    /\ Cardinality(scheduled) <= 1
    /\ \A t \in scheduled :
          /\ t.id = long_press_task
          /\ t.id \notin cancelled

\* A press notification that found no handle has armed a timer, after a
\* long-press event that ended an earlier timer.
C16_Witness ==
    /\ last.op = "press"
    /\ last.task0 = NoTask
    /\ last.longOn0 >= 1
    /\ Cardinality(scheduled) = 1
    /\ \A t \in scheduled : t.id = long_press_task

\* The bridge handle, for a command of the bridge client only.
BridgePart ==
    IF KnownCommand /\ result.res.command.str \in bridge_methods
    THEN <<BridgeV>> ELSE <<>>

RegisteredIds ==
    {StrV(button_subscribers[i].key) : i \in DOMAIN button_subscribers}
        \cup {StrV(subscribers[i].key) : i \in DOMAIN subscribers}

\* The target as the claim derives it from the topic of the message.
ClaimedTarget ==
    LET segs == Split(result.msg.topic)
        n == Len(segs)
        t == IF segs[n - 1] = own_name THEN segs[n] ELSE segs[n - 1]
    IN  IF StrV(t) = result.res.command THEN NoneV ELSE StrV(t)

\* No registry was searched: nothing was found and nothing was warned of.
NoLookup ==
    /\ result.res.device_id = NoneV
    /\ ~result.res.warned
    /\ \A i \in 1..Len(result.res.full) : result.res.full[i] \notin RegisteredIds

\* The topic ends with the service's own name, as status/lutron/caseta does.
AddressedToRoot ==
    LET segs == Split(result.msg.topic)
    IN  segs[Len(segs)] = own_name

\* C19 as claimed: the target is derived from the last two segments, and an
\* absent target, which a topic addressed to the service's own name has,
\* causes no lookup, no warning and no device id among the arguments.
C19_RootTargetAbsent ==
    (Resolved /\ result.res.raised = "") =>
        /\ result.res.device_name = ClaimedTarget
        /\ (result.res.device_name = NoneV \/ AddressedToRoot) => NoLookup

\* C19 amended: the same derivation; only a target equal to the command is
\* absent, and an absent target causes no lookup.  A target that is
\* present is looked up: it is found or warned of.
C19_AbsentTargetNoLookup ==
    (Resolved /\ result.res.raised = "") =>
        /\ result.res.device_name = ClaimedTarget
        /\ result.res.device_name = NoneV => NoLookup
        /\ result.res.device_name # NoneV =>
              (result.res.device_id = NoneV <=> result.res.warned)

\* A known command without a target was resolved.
C19_Witness ==
    /\ Resolved
    /\ KnownCommand
    /\ result.res.raised = ""
    /\ result.res.device_name = NoneV
    /\ Len(button_subscribers) > 0

\* The designator of the message: the payload's first argument, if any.
Designator ==
    LET l == IF IsList(result.msg.payload) THEN result.msg.payload.list
             ELSE <<result.msg.payload>>
    IN  IF Len(l) = 0 THEN NoneV ELSE l[1]

\* The designator is the ordinal of d, a digit string of it, or the label
\* of d in any case.
Designates(bn, d) ==
    \/ IsInt(bn) /\ bn.int = d.button_number
    \/ IsStr(bn) /\ IsDigit(bn.str) /\ StrToInt(bn.str) = d.button_number
    \/ IsStr(bn) /\ Upper(bn.str) = Upper(button_name(d))

\* C20: a button with the target's name matches the designator exactly when
\* the designator is its ordinal, a digit string of its ordinal or its
\* label; without a designator no button matches and the devices are
\* searched.
C20_DesignatorMatch ==
    (Resolved /\ result.res.raised = "" /\ Truthy(result.res.device_name)) =>
        /\ \A i \in ButtonsNamed(result.res.device_name) :
              match(button_subscribers[i].dev, Designator)
                  <=> Designates(Designator, button_subscribers[i].dev)
        /\ result.res.is_button <=>
              \E i \in ButtonsNamed(result.res.device_name) :
                  Designates(Designator, button_subscribers[i].dev)

\* C21: a long-press event ('ON' on <name>/<ordinal>/long) is published only
\* by the timer firing, the button having been held for long_press_time at
\* least; a press notification that finds the button pressed publishes no
\* long-press event and leaves an armed timer armed.
C21_LongPressOnlyByTimer ==
    /\ CountLong(out, s_ON) >= 1 =>
           /\ last.op = "fire"
           /\ last.held0 >= long_press_time
    /\ (last.op = "press" /\ last.pressed0) =>
           /\ CountLong(out, s_ON) = 0
           /\ last.pending0 =>
                 /\ long_press_task = last.task0
                 /\ \E t \in scheduled : t.id = last.task0

\* C22: the first call of the wrapper that finds or reports 'Press', the call
\* by _subscribe included, publishes nothing on <name>/<ordinal>/double,
\* however soon after the wrapper was built.
C22_FirstPressNoDoubleClick ==
    (PressStep /\ ~last.seen0) => ~HasTopic(out, DoubleTopic(device))

====
